---- MODULE Spec2Model ----
(***************************************************************************)
(* State-machine model of the todoist-cli controller (App), its SQLite     *)
(* cache (Cache) and its REST client (ApiClient).                          *)
(*                                                                         *)
(* Option<T> values are sequences: None is <<>> and Some(x) is <<x>>.      *)
(* Strings are sequences of one-character strings, so that trim() and the  *)
(* input buffer can be computed.  Vec indices are 0-based as in the code;  *)
(* the element at index i of a Vec is element i+1 of the TLA+ sequence.    *)
(***************************************************************************)
EXTENDS Integers, Sequences, FiniteSets, TLC

\* ---- bounds of the model: sync_tasks and add_task allocate local ids while
\* next_id < MaxNextId, the remote service creates tasks with ids up to
\* MaxRemoteId
MaxNextId == 6
MaxRemoteId == 2

\* ---- values ---------------------------------------------------------------
None == <<>>

Some(x) == <<x>>

unwrap_or(o, d) == IF o = None THEN d ELSE o[1]

\* a subtraction that does not saturate at 0
wrapping_sub(a, b) == a - b

saturating_sub(a, b) == IF a >= b THEN a - b ELSE 0

\* the titles the operations are called with: empty, whitespace-only and a
\* proper one
Titles == { <<>>, <<" ">>, <<"a">> }

\* str::trim(): strip leading and trailing whitespace
RECURSIVE trim_start(_)
trim_start(s) ==
    IF s # <<>> /\ Head(s) = " " THEN trim_start(Tail(s)) ELSE s

RECURSIVE trim_end(_)
trim_end(s) ==
    IF s # <<>> /\ s[Len(s)] = " " THEN trim_end(SubSeq(s, 1, Len(s) - 1)) ELSE s

trim(s) == trim_end(trim_start(s))

\* title.is_empty(), without the trim
is_empty(s) == s = <<>>

\* title.trim().is_empty()
is_blank(s) == trim(s) = <<>>

\* Task::new(id, title, checked): a local-only task, todoist_id None
Task_new(id, title, checked) ==
    [id |-> id, todoist_id |-> None, title |-> title, checked |-> checked]

\* the placeholder tasks App::new installs when the cache is empty
SeedTasks ==
    << Task_new(1, <<"B", "u", "y", " ", "M", "i", "l", "k">>, FALSE),
       Task_new(2, <<"W", "r", "i", "t", "e", " ", "C", "o", "d", "e">>, FALSE),
       Task_new(3, <<"F", "i", "x", " ", "B", "u", "g", "s">>, FALSE) >>

VARIABLES
    tasks,        \* App.tasks: Vec<Task>
    next_id,      \* App.next_id
    selected,     \* App.list_state.selected(): Option<usize>
    db,           \* rows of the SQLite table tasks (the durable store)
    remote,       \* the task list held by the remote service
    remote_next,  \* the next id the remote service hands out
    allocated,    \* local ids that have been carried by a task in this process
    last,         \* what the last handler did: op, remote outcome, result, events
    mode,         \* App.mode: Mode
    input_buffer, \* App.input_buffer: String
    event,        \* the key run_app read last, "call" for a direct call
    edit_target,  \* the task (local id) that was selected when 'i' was pressed
    request       \* what the last direct call asked for

vars == <<tasks, next_id, selected, db, remote, remote_next, allocated, last,
          mode, input_buffer, event, edit_target, request>>

\* ---- Cache (db/cache.rs) ------------------------------------------------

\* params![task.id, task.todoist_id, task.title, task.checked as i32]
TaskToRow(t) ==
    [id |-> t.id, todoist_id |-> t.todoist_id[1], title |-> t.title,
     checked |-> IF t.checked THEN 1 ELSE 0]

\* the closure of load_tasks: checked is row.get::<_, i32>(3)? != 0
RowToTask_inverted(r) ==
    [id |-> r.id, todoist_id |-> Some(r.todoist_id), title |-> r.title,
     checked |-> (r.checked = 0)]

RowToTask(r) ==
    [id |-> r.id, todoist_id |-> Some(r.todoist_id), title |-> r.title,
     checked |-> (r.checked # 0)]

\* a scan of the table returns the rows in primary-key (rowid) order
RECURSIVE ScanRows(_)
ScanRows(rows) ==
    IF rows = {} THEN <<>>
    ELSE LET r == CHOOSE x \in rows : \A y \in rows : x.id <= y.id
         IN  <<r>> \o ScanRows(rows \ {r})

load_tasks(rows) ==
    LET scan == ScanRows(rows)
    IN  [i \in 1..Len(scan) |-> RowToTask(scan[i])]

\* The INSERT statements of save_tasks from the i-th task on.  Statement i
\* fails when the store reports an error there (fault = i), when todoist_id
\* is NULL (column TEXT NOT NULL) or when the id is taken (PRIMARY KEY); the
\* rows written by the statements before it stay, there is no transaction.
RECURSIVE InsertFrom(_, _, _, _)
InsertFrom(rows, ts, i, fault) ==
    IF i > Len(ts) THEN [rows |-> rows, ok |-> TRUE]
    ELSE IF \/ fault = i
            \/ ts[i].todoist_id = None
            \/ \E r \in rows : r.id = ts[i].id
         THEN [rows |-> rows, ok |-> FALSE]
         ELSE InsertFrom(rows \cup {TaskToRow(ts[i])}, ts, i + 1, fault)

\* save_tasks: DELETE FROM tasks (statement 0), then one INSERT per task.
\* fault is the number of the statement at which the store reports an error,
\* Len(ts) + 1 when it reports none.
save_tasks(rows, ts, fault) ==
    IF fault = 0 THEN [rows |-> rows, ok |-> FALSE]
    ELSE InsertFrom({}, ts, 1, fault)

\* the statements at which the store can fail: those that are reached
Faults(ts) ==
    {k \in 0..(Len(ts) + 1) : \A i \in 1..(k - 1) : i <= Len(ts) => ts[i].todoist_id # None}

\* ---- ApiClient (api/client.rs) ------------------------------------------

\* what a request can come to: a 2xx answer with a well-formed body, a
\* failure of send(), a non-success status, a 2xx answer whose body does
\* not deserialize
ReadOutcomes == {"ok", "transport", "status", "malformed"}

\* update_task and delete_task never read the status or the body
WriteOutcomes == {"ok", "transport", "status"}

RemoteHas(tid) == tid # None /\ \E i \in 1..Len(remote) : remote[i].id = tid[1]

\* fetch_tasks that swallows a failed request into an empty list
fetch_tasks_unchecked(outcome) ==
    [ok |-> TRUE,
     tasks |-> IF outcome = "ok"
               THEN [i \in 1..Len(remote) |->
                       [id |-> i, todoist_id |-> Some(remote[i].id),
                        title |-> remote[i].content, checked |-> remote[i].checked]]
               ELSE <<>>]

fetch_tasks(outcome) ==
    IF outcome = "ok"
    THEN [ok |-> TRUE,
          tasks |-> [i \in 1..Len(remote) |->
                       [id |-> i, todoist_id |-> Some(remote[i].id),
                        title |-> remote[i].content, checked |-> remote[i].checked]]]
    ELSE [ok |-> FALSE, tasks |-> <<>>]

\* add_task that drops the id of the reply
api_add_task_local(title, outcome) ==
    [ok |-> outcome = "ok", task |-> Task_new(0, title, FALSE)]

\* add_task without the status check, as update_task and delete_task are
api_add_task_unchecked(title, outcome) ==
    [ok |-> outcome # "transport",
     task |-> [id |-> 0,
               todoist_id |-> IF outcome = "ok" THEN Some(remote_next) ELSE None,
               title |-> title, checked |-> FALSE]]

api_add_task(title, outcome) ==
    [ok |-> outcome = "ok",
     task |-> [id |-> 0, todoist_id |-> Some(remote_next),
               title |-> title, checked |-> FALSE]]

\* send().await? fails on a transport error only
api_update_task(tid, title, outcome) == [ok |-> outcome # "transport"]

api_delete_task(tid, outcome) == [ok |-> outcome # "transport"]

\* the remote service's side of the requests: it creates, changes or drops a
\* task when it answers with success ("ok"); a reply that does not
\* deserialize is taken not to have created one
RemoteAfterCreate(title, outcome) ==
    IF outcome = "ok"
    THEN Append(remote, [id |-> remote_next, content |-> title, checked |-> FALSE])
    ELSE remote

RemoteAfterUpdate(tid, title, outcome) ==
    IF outcome = "ok"
    THEN [i \in 1..Len(remote) |->
            IF remote[i].id = tid[1] THEN [remote[i] EXCEPT !.content = title]
            ELSE remote[i]]
    ELSE remote

RemoteAfterDelete(tid, outcome) ==
    IF outcome = "ok"
    THEN SelectSeq(remote, LAMBDA t : t.id # tid[1])
    ELSE remote

\* ---- App (controller/app.rs) --------------------------------------------

Ids(ts) == {ts[i].id : i \in 1..Len(ts)}

MaxOf(S) == CHOOSE x \in S : \A y \in S : y <= x

\* a search that falls back to the first task when no task has the id
position_or_first(ts, id) ==
    IF \E i \in 1..Len(ts) : ts[i].id = id
    THEN Some((CHOOSE i \in 1..Len(ts) : ts[i].id = id) - 1)
    ELSE IF ts # <<>> THEN Some(0) ELSE None

\* tasks.iter().position(|t| t.id == id)
position(ts, id) ==
    IF \E i \in 1..Len(ts) : ts[i].id = id
    THEN Some((CHOOSE i \in 1..Len(ts) :
                  /\ ts[i].id = id
                  /\ \A j \in 1..(i - 1) : ts[j].id # id) - 1)
    ELSE None

\* Vec::remove(index)
remove(ts, index) ==
    [i \in 1..(Len(ts) - 1) |-> IF i <= index THEN ts[i] ELSE ts[i + 1]]

\* sync_tasks that hands the new ids out from the last task to the first
Renumber_reversed(api_tasks, first) ==
    [i \in 1..Len(api_tasks) |->
        [api_tasks[i] EXCEPT !.id = first + (Len(api_tasks) - i)]]

\* sync_tasks that keeps the ids fetch_tasks numbered the tasks with
Renumber_kept(api_tasks, first) == api_tasks

\* the loop of sync_tasks: task.id = self.next_id + i
Renumber(api_tasks, first) ==
    [i \in 1..Len(api_tasks) |-> [api_tasks[i] EXCEPT !.id = first + (i - 1)]]

Done(op, outcome, result, events) ==
    [op |-> op, outcome |-> outcome, result |-> result, events |-> events]

\* a direct call, as far as the properties tell calls apart: the method,
\* whether the id it was given names a task of the registry, whether the
\* title it was given is empty or whitespace only
Request(op, known, blank) == [op |-> op, known |-> known, blank |-> blank]

\* a title or buffer that is empty or holds whitespace only
WhitespaceOnly(s) == \A i \in 1..Len(s) : s[i] = " "

\* App::new: the registry built from the rows of the cache
App_new(rows) ==
    LET loaded == load_tasks(rows)
        ts == IF loaded = <<>> THEN SeedTasks ELSE loaded
    IN  [tasks |-> ts,
         selected |-> IF ts # <<>> THEN Some(0) ELSE None,
         next_id |-> (IF ts = <<>> THEN 0 ELSE MaxOf(Ids(ts))) + 1]

\* the service holds one completed task; the cache is that of a first run
\* (empty) or the one an earlier run left after its first sync_all
InitRemote == << [id |-> 1, content |-> <<"b">>, checked |-> TRUE] >>

InitCaches == { {}, {[id |-> 4, todoist_id |-> 1, title |-> <<"b">>, checked |-> 1]} }

Init ==
    /\ remote = InitRemote
    /\ remote_next = Len(remote) + 1
    /\ db \in InitCaches
    /\ LET app == App_new(db)
       IN  /\ tasks = app.tasks
           /\ selected = app.selected
           /\ next_id = app.next_id
           /\ allocated = Ids(app.tasks)
    /\ last = Done("new", "none", "Ok", <<>>)
    /\ mode = "Normal"
    /\ input_buffer = <<>>
    /\ event = "call"
    /\ edit_target = None
    /\ request = Request("new", FALSE, FALSE)

sync_tasks(outcome) ==
    LET r == fetch_tasks(outcome)
    IN  IF ~r.ok
        THEN /\ last' = Done("sync", outcome, "Err", <<"remote">>)
             /\ UNCHANGED <<tasks, next_id, selected, db, remote, remote_next, allocated>>
        ELSE LET new == Renumber(r.tasks, next_id)
             IN  /\ next_id < MaxNextId
                 /\ \E fault \in Faults(new) :
                      LET s == save_tasks(db, new, fault)
                      IN  /\ tasks' = new
                          /\ next_id' = next_id + Len(new)
                          /\ allocated' = allocated \cup Ids(new)
                          /\ db' = s.rows
                          /\ selected' = IF s.ok /\ new # <<>> /\ selected = None
                                         THEN Some(0) ELSE selected
                          /\ last' = Done("sync", outcome,
                                          IF s.ok THEN "Ok" ELSE "Err",
                                          <<"remote", "tasks", "cache">>)
                          /\ UNCHANGED <<remote, remote_next>>

add_task(title, outcome) ==
    IF is_blank(title)
    THEN /\ outcome = "ok"
         /\ last' = Done("add", "none", "Ok", <<>>)
         /\ UNCHANGED <<tasks, next_id, selected, db, remote, remote_next, allocated>>
    ELSE LET r == api_add_task(title, outcome)
         IN  /\ outcome = "ok" => remote_next <= MaxRemoteId
             /\ remote' = RemoteAfterCreate(title, outcome)
             /\ remote_next' = IF outcome = "ok"
                               THEN remote_next + 1 ELSE remote_next
             /\ IF ~r.ok
                THEN /\ last' = Done("add", outcome, "Err", <<"remote">>)
                     /\ UNCHANGED <<tasks, next_id, selected, db, allocated>>
                ELSE LET new == Append(tasks, [r.task EXCEPT !.id = next_id])
                     IN  /\ next_id < MaxNextId
                         /\ \E fault \in Faults(new) :
                              LET s == save_tasks(db, new, fault)
                              IN  /\ tasks' = new
                                  /\ next_id' = next_id + 1
                                  /\ allocated' = allocated \cup {next_id}
                                  /\ selected' = Some(Len(new) - 1)
                                  /\ db' = s.rows
                                  /\ last' = Done("add", outcome,
                                                  IF s.ok THEN "Ok" ELSE "Err",
                                                  <<"remote", "tasks", "cache">>)

update_task(id, title, outcome) ==
    LET found == position(tasks, id)
    IN  IF found = None \/ is_blank(title)
        THEN /\ outcome = "ok"
             /\ last' = Done("update", "none", "Ok", <<>>)
             /\ UNCHANGED <<tasks, next_id, selected, db, remote, remote_next, allocated>>
        ELSE LET task == tasks[found[1] + 1]
                 r == api_update_task(task.todoist_id, title, outcome)
             IN  /\ outcome = "ok" => RemoteHas(task.todoist_id)
                 /\ remote' = RemoteAfterUpdate(task.todoist_id, title, outcome)
                 /\ IF ~r.ok
                    THEN /\ last' = Done("update", outcome, "Err", <<"remote">>)
                         /\ UNCHANGED <<tasks, next_id, selected, db, remote_next, allocated>>
                    ELSE LET new == [tasks EXCEPT ![found[1] + 1].title = title]
                         IN  \E fault \in Faults(new) :
                               LET s == save_tasks(db, new, fault)
                               IN  /\ tasks' = new
                                   /\ db' = s.rows
                                   /\ last' = Done("update", outcome,
                                                   IF s.ok THEN "Ok" ELSE "Err",
                                                   <<"remote", "tasks", "cache">>)
                                   /\ UNCHANGED <<next_id, selected, remote_next, allocated>>

delete_task(id, outcome) ==
    LET found == position(tasks, id)
    IN  IF found = None
        THEN /\ outcome = "ok"
             /\ last' = Done("delete", "none", "Ok", <<>>)
             /\ UNCHANGED <<tasks, next_id, selected, db, remote, remote_next, allocated>>
        ELSE LET index == found[1]
                 task == tasks[index + 1]
                 r == api_delete_task(task.todoist_id, outcome)
             IN  /\ outcome = "ok" => RemoteHas(task.todoist_id)
                 /\ remote' = RemoteAfterDelete(task.todoist_id, outcome)
                 /\ IF ~r.ok
                    THEN /\ last' = Done("delete", outcome, "Err", <<"remote">>)
                         /\ UNCHANGED <<tasks, next_id, selected, db, remote_next, allocated>>
                    ELSE LET new == remove(tasks, index)
                         IN  \E fault \in Faults(new) :
                               LET s == save_tasks(db, new, fault)
                               IN  /\ tasks' = new
                                   /\ db' = s.rows
                                   /\ selected' =
                                        IF ~s.ok THEN selected
                                        ELSE IF new = <<>> THEN None
                                        ELSE IF index <= unwrap_or(selected, 0)
                                             THEN Some(saturating_sub(unwrap_or(selected, 1), 1))
                                             ELSE selected
                                   /\ last' = Done("delete", outcome,
                                                   IF s.ok THEN "Ok" ELSE "Err",
                                                   <<"remote", "tasks", "cache">>)
                                   /\ UNCHANGED <<next_id, remote_next, allocated>>

\* the selection after next(): (i + 1) % self.tasks.len(), 0 from None
next_selected(sel, ts) ==
    IF ts = <<>> THEN None
    ELSE IF sel = None THEN Some(0)
         ELSE Some((sel[1] + 1) % Len(ts))

\* the selection after previous(): len - 1 from 0, else i - 1, 0 from None
previous_selected(sel, ts) ==
    IF ts = <<>> THEN None
    ELSE IF sel = None THEN Some(0)
         ELSE IF sel[1] = 0 THEN Some(Len(ts) - 1)
              ELSE Some(sel[1] - 1)

next ==
    /\ selected' = next_selected(selected, tasks)
    /\ last' = Done("next", "none", "Ok", <<>>)
    /\ UNCHANGED <<tasks, next_id, db, remote, remote_next, allocated>>

previous ==
    /\ selected' = previous_selected(selected, tasks)
    /\ last' = Done("previous", "none", "Ok", <<>>)
    /\ UNCHANGED <<tasks, next_id, db, remote, remote_next, allocated>>

\* ---- the interaction controller (controller/app.rs, main.rs) ------------

\* the characters typed: a letter and a blank; what is typed into the buffer
\* is one of Titles
Chars == {"a", " "}

InsertModes == {"InsertAdd", "InsertEdit"}

\* a buffer that is left as it was
clear_kept(s) == s

\* String::clear()
clear(s) == <<>>

\* the first task of the list, whatever is selected
selected_task_first(sel, ts) == IF ts # <<>> THEN Some(ts[1]) ELSE None

\* if let Some(i) = self.list_state.selected() { if let Some(task) = self.tasks.get(i)
selected_task(sel, ts) ==
    IF sel # None /\ sel[1] < Len(ts) THEN Some(ts[sel[1] + 1]) ELSE None

enter_insert_add_mode ==
    /\ input_buffer' = clear(input_buffer)
    /\ mode' = "InsertAdd"
    /\ last' = Done("enter_add", "none", "Ok", <<>>)
    /\ UNCHANGED <<tasks, next_id, selected, db, remote, remote_next, allocated,
                   edit_target>>

enter_insert_edit_mode ==
    LET task == selected_task(selected, tasks)
    IN  /\ input_buffer' = IF task # None THEN task[1].title
                           ELSE clear(input_buffer)
        /\ mode' = "InsertEdit"
        /\ edit_target' = IF selected # None /\ selected[1] < Len(tasks)
                          THEN Some(tasks[selected[1] + 1].id) ELSE None
        /\ last' = Done("enter_edit", "none", "Ok", <<>>)
        /\ UNCHANGED <<tasks, next_id, selected, db, remote, remote_next, allocated>>

\* add_task and update_task are left with `?`: when they fail, the two
\* assignments that end exit_insert_mode are not reached
exit_insert_mode(outcome) ==
    LET input == input_buffer
        task == selected_task(selected, tasks)
    IN  /\ IF is_blank(input) \/ mode = "Normal"
           THEN /\ outcome = "ok"
                /\ last' = Done("exit", "none", "Ok", <<>>)
                /\ UNCHANGED <<tasks, next_id, selected, db, remote, remote_next,
                               allocated>>
           ELSE IF mode = "InsertEdit" /\ task # None
                THEN /\ outcome \in WriteOutcomes
                     /\ update_task(task[1].id, input, outcome)
                ELSE add_task(input, outcome)
        /\ IF last'.result = "Ok"
           THEN /\ mode' = "Normal"
                /\ input_buffer' = clear(input_buffer)
                /\ edit_target' = None
           ELSE UNCHANGED <<mode, input_buffer, edit_target>>

handle_input(c) ==
    /\ input_buffer' = Append(input_buffer, c)
    /\ last' = Done("input", "none", "Ok", <<>>)
    /\ UNCHANGED <<tasks, next_id, selected, db, remote, remote_next, allocated,
                   mode, edit_target>>

\* String::pop()
handle_backspace ==
    /\ input_buffer' = IF input_buffer = <<>> THEN <<>>
                       ELSE SubSeq(input_buffer, 1, Len(input_buffer) - 1)
    /\ last' = Done("backspace", "none", "Ok", <<>>)
    /\ UNCHANGED <<tasks, next_id, selected, db, remote, remote_next, allocated,
                   mode, edit_target>>

\* ---- run_app (main.rs): one action per key the loop dispatches --------------

\* the loop is left by 'q' and by a handler that returns Err
Running == event # "q" /\ last.result # "Err"

key_q ==
    /\ Running /\ UNCHANGED request /\ mode = "Normal"
    /\ event' = "q"
    /\ last' = Done("quit", "none", "Ok", <<>>)
    /\ UNCHANGED <<tasks, next_id, selected, db, remote, remote_next, allocated,
                   mode, input_buffer, edit_target>>

key_j ==
    /\ Running /\ UNCHANGED request /\ mode = "Normal"
    /\ event' = "j"
    /\ next
    /\ UNCHANGED <<mode, input_buffer, edit_target>>

key_k ==
    /\ Running /\ UNCHANGED request /\ mode = "Normal"
    /\ event' = "k"
    /\ previous
    /\ UNCHANGED <<mode, input_buffer, edit_target>>

key_i ==
    /\ Running /\ UNCHANGED request /\ mode = "Normal"
    /\ event' = "i"
    /\ enter_insert_edit_mode

key_a ==
    /\ Running /\ UNCHANGED request /\ mode = "Normal"
    /\ event' = "a"
    /\ enter_insert_add_mode

key_d ==
    /\ Running /\ UNCHANGED request /\ mode = "Normal"
    /\ event' = "d"
    /\ LET task == selected_task(selected, tasks)
       IN  IF task = None
           THEN /\ last' = Done("none", "none", "Ok", <<>>)
                /\ UNCHANGED <<tasks, next_id, selected, db, remote, remote_next,
                               allocated>>
           ELSE \E o \in WriteOutcomes : delete_task(task[1].id, o)
    /\ UNCHANGED <<mode, input_buffer, edit_target>>

key_Enter ==
    /\ Running /\ UNCHANGED request /\ mode \in InsertModes
    /\ event' = "Enter"
    /\ \E o \in ReadOutcomes : exit_insert_mode(o)

key_Esc ==
    /\ Running /\ UNCHANGED request /\ mode \in InsertModes
    /\ event' = "Esc"
    /\ \E o \in ReadOutcomes : exit_insert_mode(o)

key_Char(c) ==
    /\ Running /\ UNCHANGED request /\ mode \in InsertModes
    /\ Append(input_buffer, c) \in Titles
    /\ event' = "Char"
    /\ handle_input(c)

key_Backspace ==
    /\ Running /\ UNCHANGED request /\ mode \in InsertModes
    /\ event' = "Backspace"
    /\ handle_backspace

\* _ => {}
key_other ==
    /\ Running /\ UNCHANGED request
    /\ event' = "other"
    /\ last' = Done("none", "none", "Ok", <<>>)
    /\ UNCHANGED <<tasks, next_id, selected, db, remote, remote_next, allocated,
                   mode, input_buffer, edit_target>>

run_app ==
    \/ key_q
    \/ key_j
    \/ key_k
    \/ key_i
    \/ key_a
    \/ key_d
    \/ key_Enter
    \/ key_Esc
    \/ \E c \in Chars : key_Char(c)
    \/ key_Backspace
    \/ key_other

SpecUI == Init /\ [][run_app]_vars

\* a method of App called directly (cli/commands.rs, the Synchronizer's
\* callers): the interaction controller is in Normal mode and stays there
Direct(req) ==
    /\ mode = "Normal"
    /\ event' = "call"
    /\ request' = req
    /\ UNCHANGED <<mode, input_buffer, edit_target>>

Next ==
    \/ \E o \in ReadOutcomes :
          sync_tasks(o) /\ Direct(Request("sync", FALSE, FALSE))
    \/ \E t \in Titles, o \in ReadOutcomes :
          add_task(t, o) /\ Direct(Request("add", FALSE, WhitespaceOnly(t)))
    \/ \E id \in Ids(tasks) \cup {next_id}, t \in Titles, o \in WriteOutcomes :
          /\ update_task(id, t, o)
          /\ Direct(Request("update", id \in Ids(tasks), WhitespaceOnly(t)))
    \/ \E id \in Ids(tasks) \cup {next_id}, o \in WriteOutcomes :
          delete_task(id, o) /\ Direct(Request("delete", id \in Ids(tasks), FALSE))
    \/ next /\ Direct(Request("next", FALSE, FALSE))
    \/ previous /\ Direct(Request("previous", FALSE, FALSE))

Spec == Init /\ [][Next]_vars

\* ---- properties ------------------------------------------------------------

SyncOps == {"sync", "add", "update", "delete"}

RemoteFailures == {"transport", "status", "malformed"}

Wrote(what) == \E i \in 1..Len(last.events) : last.events[i] = what

\* C1: in add, update, delete and sync_all the remote call comes before the
\* change of the task list, which comes before the cache write; so after
\* every step each cached row is a task and title the remote service holds,
\* and a row that left the cache is a task the remote service no longer holds.
C1_RemoteThenMemoryThenCache ==
    [][ /\ last'.events \in { <<>>, <<"remote">>, <<"remote", "tasks">>,
                             <<"remote", "tasks", "cache">> }
        /\ \A r \in db' : \E i \in 1..Len(remote') :
              remote'[i].id = r.todoist_id /\ remote'[i].content = r.title
        /\ \A r \in db :
              (\A q \in db' : q.todoist_id # r.todoist_id)
                 => \A i \in 1..Len(remote') : remote'[i].id # r.todoist_id
      ]_vars

\* C2: an add with a non-blank title whose remote create fails (transport
\* error, non-success status, malformed response) leaves the task list, the
\* selection, the id allocator and the cache as they were and returns Err.
C2_AddFailureIsAtomic ==
    [][ (last'.op = "add" /\ last'.outcome \in RemoteFailures)
          => /\ UNCHANGED <<tasks, selected, next_id, db>>
             /\ last'.result = "Err"
      ]_vars

C2_Witness ==
    /\ last.op = "add"
    /\ last.outcome = "status"
    /\ last.result = "Err"
    /\ db # {}

\* C3: an update or delete of an existing task whose remote call fails, by a
\* transport error or by a non-success status, leaves the task list and the
\* cache unchanged.
C3_WriteFailureChangesNothing ==
    [][ (last'.op \in {"update", "delete"} /\ last'.outcome \in {"transport", "status"})
          => UNCHANGED <<tasks, db>>
      ]_vars

\* C4: a sync_all whose remote list call fails leaves the task list, the
\* selection and the cache as they were and returns the failure as Err.
C4_SyncFailureChangesNothing ==
    [][ (last'.op = "sync" /\ last'.outcome \in RemoteFailures)
          => /\ UNCHANGED <<tasks, selected, db>>
             /\ last'.result = "Err"
      ]_vars

C4_Witness ==
    /\ last.op = "sync"
    /\ last.outcome = "transport"
    /\ last.result = "Err"
    /\ db # {}
    /\ load_tasks(db) = tasks

\* C5: in every reachable state the selection is absent and the task list
\* empty, or the selection is an index below the length of the task list.
C5_SelectionValid ==
    \/ selected = None /\ tasks = <<>>
    \/ selected # None /\ selected[1] < Len(tasks)

\* C6: no two tasks of the registry share a local id, every local id lies in
\* 1..next_id - 1 (the ids the allocator has handed out so far), and within
\* one process an id that a task has carried is never given to another task.
C6_IdsUniqueInRangeNeverReused ==
    [][ /\ \A i, j \in 1..Len(tasks') : tasks'[i].id = tasks'[j].id => i = j
        /\ \A i \in 1..Len(tasks') : tasks'[i].id \in 1..(next_id' - 1)
        /\ \A i \in 1..Len(tasks') :
              tasks'[i].id \in allocated =>
                 \E j \in 1..Len(tasks) :
                    /\ tasks[j].id = tasks'[i].id
                    /\ tasks[j].todoist_id = tasks'[i].todoist_id
      ]_vars

C6_Witness ==
    /\ last.op = "add"
    /\ last.result = "Ok"
    /\ Wrote("tasks")
    /\ Len(tasks) = 2
    /\ Cardinality(allocated) = 5

\* C7 as claimed: right after a successful sync_all that fetched N tasks the
\* local ids are 1..N, in the order the tasks were received.
C7_SyncIdsAreOneToN ==
    [][ (last'.op = "sync" /\ last'.result = "Ok")
          => /\ Len(tasks') = Len(remote)
             /\ \A i \in 1..Len(tasks') :
                   /\ tasks'[i].id = i
                   /\ tasks'[i].todoist_id = Some(remote[i].id)
      ]_vars

\* C7 as amended: right after a successful sync_all that fetched N tasks the
\* local ids are next_id..next_id + N - 1, next_id being the allocator's value
\* before the call, in the order the tasks were received.
C7_SyncIdsFollowAllocator ==
    [][ (last'.op = "sync" /\ last'.result = "Ok")
          => /\ Len(tasks') = Len(remote)
             /\ next_id' = next_id + Len(remote)
             /\ \A i \in 1..Len(tasks') :
                   /\ tasks'[i].id = next_id + (i - 1)
                   /\ tasks'[i].todoist_id = Some(remote[i].id)
                   /\ tasks'[i].title = remote[i].content
                   /\ tasks'[i].checked = remote[i].checked
      ]_vars

C7_Witness ==
    /\ last.op = "sync"
    /\ last.result = "Ok"
    /\ Len(tasks) = 2
    /\ tasks[1].id > 1

\* C8 as claimed: after an add, update, delete or sync_all that returned
\* success, loading the cache yields the registry's task sequence.
C8_SuccessMeansCacheIsRegistry ==
    (last.op \in SyncOps /\ last.result = "Ok") => load_tasks(db) = tasks

\* C8 as amended: after an add, update, delete or sync_all that wrote the
\* cache and returned success, loading the cache yields the registry's task
\* sequence: same order, local ids, remote ids, titles, completion flags.
C8_SavedMeansCacheIsRegistry ==
    (last.op \in SyncOps /\ last.result = "Ok" /\ Wrote("cache"))
       => load_tasks(db) = tasks

C8_Witness ==
    /\ last.op = "update"
    /\ last.result = "Ok"
    /\ Wrote("cache")
    /\ Len(tasks) = 2
    /\ tasks[1].checked
    /\ ~tasks[2].checked

\* C9: a save that fails at any statement leaves the cache holding the whole
\* previous task sequence or the whole new one.
C9_SaveIsAtomic ==
    [][ \/ load_tasks(db') = load_tasks(db)
        \/ load_tasks(db') = tasks'
      ]_vars

\* C10: between operations every task of the registry and every row of the
\* cache has a remote id.
C10_RemoteIdAlwaysPresent ==
    /\ \A i \in 1..Len(tasks) : tasks[i].todoist_id # None
    /\ \A r \in db : RowToTask(r).todoist_id # None

\* ---- properties of the interaction controller (SpecUI) ----------------------

\* the step is the commit key (Enter) read in an insert mode
Commit == mode \in InsertModes /\ event' = "Enter"

\* the step is the cancel key (Esc) read in an insert mode
Cancel == mode \in InsertModes /\ event' = "Esc"

\* C11: in an insert mode the cancel key leaves the mode without any
\* mutation: whatever the buffer holds it makes no remote call and leaves the
\* task list and the cache unchanged; add or update is called only by the
\* commit key with a buffer that is not blank.
C11_CancelMutatesNothing ==
    [][ /\ Cancel => /\ last'.events = <<>>
                     /\ UNCHANGED <<tasks, db, remote>>
        /\ (last'.op \in {"add", "update"} /\ last'.events # <<>>)
              => (Commit /\ ~WhitespaceOnly(input_buffer))
      ]_vars

\* C12: every commit or cancel key read in InsertAdd or InsertEdit ends in
\* mode Normal with an empty buffer, whether the add or update it triggered
\* succeeded, failed at the remote call, failed at the cache write or was
\* skipped for a blank buffer.
C12_ExitAlwaysEndsNormal ==
    [][ (Commit \/ Cancel) => (mode' = "Normal" /\ input_buffer' = <<>>) ]_vars

\* ---- properties of add, update and delete called directly (Spec) -----------

\* the index of the task that a delete step removed from the list
DeletedIndex ==
    position(tasks, CHOOSE id \in Ids(tasks) : id \notin Ids(tasks'))[1]

\* C13: after a successful delete of an existing task from a list of more
\* than one task: when the deleted task was not the selected one the
\* selection still points at the same task (its index is one less when the
\* deleted task preceded it); when the deleted task was the selected one at
\* index i the selection is i - 1, and 0 when i was 0.  Deleting the only
\* task leaves no selection.
C13_SelectionRepairedAfterDelete ==
    [][ (last'.op = "delete" /\ last'.result = "Ok" /\ last'.events # <<>>)
          => LET d == DeletedIndex
             IN  IF Len(tasks) = 1 THEN selected' = None
                 ELSE selected # None
                        => LET i == selected[1]
                           IN  /\ selected' # None
                               /\ i = d => selected'[1] = (IF i = 0 THEN 0 ELSE i - 1)
                               /\ i < d => selected'[1] = i
                               /\ i > d => selected'[1] = i - 1
                               /\ (i # d /\ i < Len(tasks))
                                     => tasks'[selected'[1] + 1] = tasks[i + 1]
      ]_vars

C13_Witness ==
    /\ last.op = "delete"
    /\ last.result = "Ok"
    /\ last.events # <<>>
    /\ tasks # <<>>
    /\ selected = Some(0)

\* C14: add with an empty or whitespace-only title returns success, makes no
\* remote call and leaves the list, the selection, the id allocator and the
\* persisted rows unchanged.
C14_BlankAddIsNoOp ==
    [][ (request'.op = "add" /\ request'.blank)
          => /\ last'.result = "Ok"
             /\ last'.events = <<>>
             /\ UNCHANGED <<tasks, selected, next_id, db, remote>>
      ]_vars

C14_Witness ==
    /\ request.op = "add"
    /\ request.blank
    /\ last.result = "Ok"
    /\ tasks # <<>>

\* C15: delete with a local id that is not in the registry, and update with
\* a blank title or with a local id that is not in the registry, return
\* success, make no remote call, write no cache and leave the task list and
\* the selection unchanged.
C15_UnknownIdOrBlankTitleIsNoOp ==
    [][ (\/ request'.op = "delete" /\ ~request'.known
         \/ request'.op = "update" /\ (request'.blank \/ ~request'.known))
          => /\ last'.result = "Ok"
             /\ last'.events = <<>>
             /\ UNCHANGED <<tasks, selected, db, remote>>
      ]_vars

C15_Witness ==
    /\ request.op = "update"
    /\ ~request.known
    /\ ~request.blank
    /\ last.result = "Ok"
    /\ tasks # <<>>

\* the task the remote service created in this step
Created == remote'[Len(remote')]

\* the task an add appends: the next free local id, the remote id and the
\* title of the created task, not completed
Appended ==
    [id |-> next_id, todoist_id |-> Some(Created.id), title |-> Created.content,
     checked |-> FALSE]

TargetExists == edit_target # None /\ edit_target[1] \in Ids(tasks)

\* C17: a commit in InsertEdit with a buffer that is not blank calls update
\* on the task that was selected when edit mode was entered, provided that
\* task still exists; on success only that task's title changes, to the
\* buffer's content, and the list's length, order, ids and other tasks stay
\* as they were.  add is called instead only when that task does not exist.
C17_EditCommitUpdatesEntryTask ==
    [][ (mode = "InsertEdit" /\ event' = "Enter" /\ ~WhitespaceOnly(input_buffer))
          => /\ last'.op \in {"update", "add"}
             /\ last'.events # <<>>
             /\ TargetExists => last'.op = "update"
             /\ last'.op = "add" => ~TargetExists
             /\ (TargetExists /\ last'.result = "Ok")
                   => /\ tasks' = [tasks EXCEPT
                                     ![position(tasks, edit_target[1])[1] + 1].title =
                                         input_buffer]
                      /\ UNCHANGED <<selected, next_id>>
      ]_vars

C17_Witness ==
    /\ event = "Enter"
    /\ last.op = "update"
    /\ last.result = "Ok"
    /\ Len(tasks) = 2
    /\ selected = Some(1)
    /\ tasks[2].title # tasks[1].title

\* C18: the edit key read in Normal mode leads to InsertEdit only when a
\* task is selected, and the buffer then holds that task's title; with no
\* task selected the mode stays Normal.
C18_EditNeedsSelection ==
    [][ (mode = "Normal" /\ event' = "i")
          => IF selected # None /\ selected[1] < Len(tasks)
             THEN /\ mode' = "InsertEdit"
                  /\ input_buffer' = tasks[selected[1] + 1].title
             ELSE mode' = "Normal"
      ]_vars

\* C19: the buffer is empty in every state whose mode is Normal, and entering
\* an insert mode discards what the buffer held: after the add key the buffer
\* is empty, after the edit key it holds the selected task's title and
\* nothing else.
C19_BufferEmptyInNormalAndFreshOnEntry ==
    /\ [](mode = "Normal" => input_buffer = <<>>)
    /\ [][ /\ (mode = "Normal" /\ event' = "a")
                => (mode' = "InsertAdd" /\ input_buffer' = <<>>)
           /\ (mode = "Normal" /\ event' = "i")
                => input_buffer' = IF selected # None /\ selected[1] < Len(tasks)
                                   THEN tasks[selected[1] + 1].title ELSE <<>>
         ]_vars

C19_Witness ==
    /\ mode = "Normal"
    /\ event \in {"Enter", "Esc"}
    /\ last.op \in {"add", "update"}
    /\ last.result = "Ok"
    /\ input_buffer = <<>>

\* ---- the sync cursor ---------------------------------------------------------

\* the request fetch_tasks sends: GET /api/v1/tasks with the Authorization
\* header, no cursor parameter
fetch_request == [method |-> "GET", path |-> "/api/v1/tasks", cursor |-> None]

\* the cursor App holds: its fields are tasks, next_id, list_state, mode,
\* input_buffer, api_client and cache, so none
sync_cursor == None

\* C20: the Synchronizer holds a sync cursor that sync_all passes to the
\* remote list call; it changes only when a list fetch succeeds and never
\* returns to an earlier value.  Stated for the state after any sync_all: a
\* cursor is held and it is the one the list request carried.
C20_SyncCursorHeldAndPassed ==
    last.op = "sync" => (sync_cursor # None /\ fetch_request.cursor = sync_cursor)

\* ---- navigation --------------------------------------------------------------

\* n calls of next() in a row
RECURSIVE next_times(_, _, _)
next_times(n, sel, ts) ==
    IF n = 0 THEN sel ELSE next_times(n - 1, next_selected(sel, ts), ts)

\* C21: over a list that is not empty navigation is circular: next from the
\* last index selects index 0, previous from index 0 selects the last index,
\* next followed by previous and previous followed by next restore the
\* selection, and so do N calls of next on a list of N tasks; on an empty
\* list both leave nothing selected.  Neither changes the task list.
C21_NavigationIsCircular ==
    /\ [](IF tasks = <<>>
          THEN /\ next_selected(selected, tasks) = None
               /\ previous_selected(selected, tasks) = None
          ELSE /\ selected = Some(Len(tasks) - 1)
                    => next_selected(selected, tasks) = Some(0)
               /\ selected = Some(0)
                    => previous_selected(selected, tasks) = Some(Len(tasks) - 1)
               /\ previous_selected(next_selected(selected, tasks), tasks) = selected
               /\ next_selected(previous_selected(selected, tasks), tasks) = selected
               /\ next_times(Len(tasks), selected, tasks) = selected)
    /\ [][ last'.op \in {"next", "previous"} => UNCHANGED tasks ]_vars

\* ---- order of the registry ---------------------------------------------------

\* the local ids of a task list, in list order
IdsInOrder(ts) == [i \in 1..Len(ts) |-> ts[i].id]

\* the local ids in the order a scan of the table returns the rows of ts
IdsInKeyOrder(ts) ==
    LET scan == ScanRows({[id |-> ts[i].id] : i \in 1..Len(ts)})
    IN  [i \in 1..Len(scan) |-> scan[i].id]

\* C22: in every reachable state the tasks of the registry are in strictly
\* ascending order of local id and next_id is greater than every local id of
\* the registry, so that reading the rows back in primary-key order gives
\* the order of the list.
C22_AscendingIdsBelowNextId ==
    /\ \A i, j \in 1..Len(tasks) : i < j => tasks[i].id < tasks[j].id
    /\ \A i \in 1..Len(tasks) : tasks[i].id < next_id
    /\ IdsInKeyOrder(tasks) = IdsInOrder(tasks)

C22_Witness ==
    /\ last.op = "sync"
    /\ last.result = "Ok"
    /\ Len(tasks) = 2
    /\ selected = Some(0)
    /\ load_tasks(db) = tasks
    /\ next_id = tasks[2].id + 1

====
